---- MODULE Spec2Model ----
(***************************************************************************)
(* Smart Music Playlist Manager: the doubly linked song list, the LIFO     *)
(* action stack and the PlaylistController with its undo/redo logs.        *)
(*                                                                         *)
(* The list is modelled at pointer level: a heap of SongNode objects       *)
(* (song, next, prev) addressed by node ids, with head/tail/current/size   *)
(* fields.  The repository holds two list classes with the same name: the  *)
(* one in structures/DoublyLinkedList.js, which app.js wires into the      *)
(* controller, and the one printed in ENHANCEMENTS_GUIDE.md, which has the *)
(* getIndex / moveCurrentToIndex / addSong(song, index) methods the        *)
(* controller calls.  The controller takes its list class as a constructor *)
(* argument, so the class is part of the state fixed at construction.      *)
(***************************************************************************)
EXTENDS Integers, Sequences, FiniteSets, TLC

(* ------------------------------ bounds -------------------------------- *)

\* largest playlist explored
MaxSize == 3

\* largest number of action records held in the two logs together
MaxLog == 2

\* longest array handed to initializePlaylist
MaxInit == 2

\* deepest stack explored when the Stack class is used on its own
MaxDepth == 3

\* most push() calls between two clear() calls of a stack used on its own
MaxPushes == 5

(* ------------------------------ values -------------------------------- *)

\* the null node reference
NULL == 0

\* JavaScript null / undefined where a song object is expected
NoSong == [title |-> "<null>", artist |-> "<null>", url |-> "<null>"]

\* a field that is absent from an action record (JavaScript undefined)
Undefined == -2

\* Song objects carry the allocation they come from: an object literal of the
\* caller, a cloneSong result handed to playlist.addSong, or a cloneSong result
\* put into an action record.  Two references with different marks are
\* different objects.
CallerObject == "object of the caller"
ListCopy == "clone handed to playlist.addSong"
RecordCopy == "clone put into an action record"

\* a song object built by the caller
MkSong(t, a, u) == [title |-> t, artist |-> a, url |-> u, obj |-> CallerObject]

\* the string fields of a song object, which is what JSON.stringify keeps
SongData(song) == [title |-> song.title, artist |-> song.artist, url |-> song.url]

Titles == {"A", "B"}

\* songs with all required fields; two of them share the title "A"
ValidSongs ==
    { MkSong("A", "x", "u"), MkSong("A", "y", "u"), MkSong("B", "x", "u") }

\* inputs rejected by the field validation ("" stands for a missing field)
InvalidSongs ==
    { NoSong, MkSong("", "x", "u"), MkSong("A", "", "u"), MkSong("B", "x", "") }

SongInputs == ValidSongs \cup InvalidSongs

\* title arguments; "" stands for an empty or non-string title
TitleInputs == Titles \cup {""}

\* the two list classes of the repository
SrcList == "structures/DoublyLinkedList.js"
GuideList == "ENHANCEMENTS_GUIDE.md"
ListClasses == {SrcList, GuideList}

Max(a, b) == IF a >= b THEN a ELSE b
Min(a, b) == IF a <= b THEN a ELSE b

(* --------------------------- SongNode heap ---------------------------- *)

SongNode(song) == [song |-> song, next |-> NULL, prev |-> NULL]

\* new DoublyLinkedListClass()
NewList(cls) ==
    [cls |-> cls, nodes |-> <<>>, head |-> NULL, tail |-> NULL,
     current |-> NULL, size |-> 0]

\* the id given to a newly constructed node: the smallest one not in use
NewId(pl) ==
    LET ids == 1..(Cardinality(DOMAIN pl.nodes) + 1)
    IN CHOOSE i \in ids :
          /\ i \notin DOMAIN pl.nodes
          /\ \A j \in ids : j \notin DOMAIN pl.nodes => i <= j

\* ids met by following next from id, at most fuel of them
RECURSIVE Chain(_, _, _)
Chain(nodes, id, fuel) ==
    IF id = NULL \/ fuel = 0 \/ id \notin DOMAIN nodes THEN <<>>
    ELSE <<id>> \o Chain(nodes, nodes[id].next, fuel - 1)

\* ids met by following prev from id, at most fuel of them
RECURSIVE ChainBack(_, _, _)
ChainBack(nodes, id, fuel) ==
    IF id = NULL \/ fuel = 0 \/ id \notin DOMAIN nodes THEN <<>>
    ELSE <<id>> \o ChainBack(nodes, nodes[id].prev, fuel - 1)

ForwardIds(pl) == Chain(pl.nodes, pl.head, MaxSize + 2)
BackwardIds(pl) == ChainBack(pl.nodes, pl.tail, MaxSize + 2)

\* nodes still referenced from the list object, directly or through links
RECURSIVE Reach(_, _, _)
Reach(nodes, set, fuel) ==
    LET more == set \cup { nodes[i].next : i \in set } \cup { nodes[i].prev : i \in set }
        live == (more \ {NULL}) \cap DOMAIN nodes
    IN IF fuel = 0 \/ live = set THEN set ELSE Reach(nodes, live, fuel - 1)

\* the elements of a set of ids in increasing order
RECURSIVE Sorted(_)
Sorted(set) ==
    IF set = {} THEN <<>>
    ELSE LET m == CHOOSE x \in set : \A y \in set : x <= y
         IN <<m>> \o Sorted(set \ {m})

\* ids met by following next from id, stopping at a node already met
RECURSIVE ChainOnce(_, _, _)
ChainOnce(nodes, id, seen) ==
    IF id = NULL \/ id \in seen \/ id \notin DOMAIN nodes THEN <<>>
    ELSE <<id>> \o ChainOnce(nodes, nodes[id].next, seen \cup {id})

\* Unreferenced nodes are reclaimed by the garbage collector.  Node ids stand
\* for object addresses, which a program cannot observe, so the surviving
\* nodes are renamed: the chain from head gets 1, 2, ... in order and any
\* other node still referenced gets the ids after them.
Collect(pl) ==
    LET live == Reach(pl.nodes, ({pl.head, pl.tail, pl.current} \ {NULL}) \cap DOMAIN pl.nodes,
                      MaxSize + 2)
        chain == ChainOnce(pl.nodes, pl.head, {})
        order == chain \o Sorted(live \ { chain[k] : k \in 1..Len(chain) })
        name(x) == IF x = NULL \/ x \notin live THEN x
                   ELSE CHOOSE k \in 1..Len(order) : order[k] = x
    IN [pl EXCEPT !.nodes = [k \in 1..Len(order) |->
                                [song |-> pl.nodes[order[k]].song,
                                 next |-> name(pl.nodes[order[k]].next),
                                 prev |-> name(pl.nodes[order[k]].prev)]],
                  !.head = name(pl.head),
                  !.tail = name(pl.tail),
                  !.current = name(pl.current)]

\* a search that answers with the last node whose song has the title
FindLast(pl, title) ==
    LET ids == ForwardIds(pl)
        hits == { k \in 1..Len(ids) : pl.nodes[ids[k]].song.title = title }
    IN IF hits = {} THEN NULL
       ELSE ids[CHOOSE k \in hits : \A m \in hits : k >= m]

\* the while loop of removeSong: temp walks the next links until a node whose
\* song has the title, or past the end
RECURSIVE removeSong_walk(_, _, _)
removeSong_walk(nodes, temp, title) ==
    IF temp = NULL THEN NULL
    ELSE IF nodes[temp].song.title = title THEN temp
    ELSE removeSong_walk(nodes, nodes[temp].next, title)

\* first node from head whose song has the title, or NULL
FindFirst(pl, title) == removeSong_walk(pl.nodes, pl.head, title)

\* the node reached from head by index steps of next (NULL past the end)
RECURSIVE Walk(_, _, _)
Walk(nodes, id, steps) ==
    IF steps = 0 \/ id = NULL THEN id ELSE Walk(nodes, nodes[id].next, steps - 1)

(* -------- the list of structures/DoublyLinkedList.js (wired by app.js) -------- *)

\* addSong(song) that forgets to count the first song
DLL_addSong_NoCount(pl, song) ==
    LET n == NewId(pl)
        grown == (n :> SongNode(song)) @@ pl.nodes
    IN Collect(
       IF pl.head = NULL
       THEN [pl EXCEPT !.nodes = grown, !.head = n, !.tail = n, !.current = n]
       ELSE [pl EXCEPT !.nodes = [grown EXCEPT ![n].prev = pl.tail, ![pl.tail].next = n],
                       !.tail = n,
                       !.size = pl.size + 1])

\* addSong(song): appends; a second argument is ignored and nothing is returned
DLL_addSong(pl, song) ==
    LET n == NewId(pl)
        grown == (n :> SongNode(song)) @@ pl.nodes
    IN Collect(
       IF pl.head = NULL
       THEN [pl EXCEPT !.nodes = grown, !.head = n, !.tail = n, !.current = n,
                       !.size = pl.size + 1]
       ELSE [pl EXCEPT !.nodes = [grown EXCEPT ![n].prev = pl.tail, ![pl.tail].next = n],
                       !.tail = n,
                       !.size = pl.size + 1])

\* a removeSong(title) that repairs the cursor of a middle removal backwards
DLL_removeSong_MiddleToPrev(pl, title) ==
    LET temp == FindFirst(pl, title) IN
    IF pl.head = NULL \/ temp = NULL THEN [pl |-> pl, ret |-> NoSong]
    ELSE
      LET nd == pl.nodes[temp]
          after ==
            IF pl.head = pl.tail
            THEN [pl EXCEPT !.head = NULL, !.tail = NULL, !.current = NULL]
            ELSE IF temp = pl.head
            THEN [pl EXCEPT !.head = nd.next,
                            !.nodes = [pl.nodes EXCEPT ![nd.next].prev = NULL],
                            !.current = IF pl.current = temp THEN nd.next ELSE pl.current]
            ELSE IF temp = pl.tail
            THEN [pl EXCEPT !.tail = nd.prev,
                            !.nodes = [pl.nodes EXCEPT ![nd.prev].next = NULL],
                            !.current = IF pl.current = temp THEN nd.prev ELSE pl.current]
            ELSE [pl EXCEPT !.nodes = [pl.nodes EXCEPT ![nd.prev].next = nd.next,
                                                       ![nd.next].prev = nd.prev],
                            !.current = IF pl.current = temp THEN nd.prev ELSE pl.current]
      IN [pl |-> Collect([after EXCEPT !.size = pl.size - 1]), ret |-> nd.song]

\* a removeSong(title) that leaves the cursor on the node it unlinks at either
\* end of the list
DLL_removeSong_EndsKeepCursor(pl, title) ==
    LET temp == FindFirst(pl, title) IN
    IF pl.head = NULL \/ temp = NULL THEN [pl |-> pl, ret |-> NoSong]
    ELSE
      LET nd == pl.nodes[temp]
          after ==
            IF pl.head = pl.tail
            THEN [pl EXCEPT !.head = NULL, !.tail = NULL, !.current = NULL]
            ELSE IF temp = pl.head
            THEN [pl EXCEPT !.head = nd.next,
                            !.nodes = [pl.nodes EXCEPT ![nd.next].prev = NULL],
                            !.current = pl.current]
            ELSE IF temp = pl.tail
            THEN [pl EXCEPT !.tail = nd.prev,
                            !.nodes = [pl.nodes EXCEPT ![nd.prev].next = NULL],
                            !.current = pl.current]
            ELSE [pl EXCEPT !.nodes = [pl.nodes EXCEPT ![nd.prev].next = nd.next,
                                                       ![nd.next].prev = nd.prev],
                            !.current = IF pl.current = temp THEN nd.next ELSE pl.current]
      IN [pl |-> Collect([after EXCEPT !.size = pl.size - 1]), ret |-> nd.song]

\* a removeSong(title) that leaves the new head linked to the node it unlinks
DLL_removeSong_KeepHeadPrev(pl, title) ==
    LET temp == FindFirst(pl, title) IN
    IF pl.head = NULL \/ temp = NULL THEN [pl |-> pl, ret |-> NoSong]
    ELSE
      LET nd == pl.nodes[temp]
          after ==
            IF pl.head = pl.tail
            THEN [pl EXCEPT !.head = NULL, !.tail = NULL, !.current = NULL]
            ELSE IF temp = pl.head
            THEN [pl EXCEPT !.head = nd.next,
                            !.current = IF pl.current = temp THEN nd.next ELSE pl.current]
            ELSE IF temp = pl.tail
            THEN [pl EXCEPT !.tail = nd.prev,
                            !.nodes = [pl.nodes EXCEPT ![nd.prev].next = NULL],
                            !.current = IF pl.current = temp THEN nd.prev ELSE pl.current]
            ELSE [pl EXCEPT !.nodes = [pl.nodes EXCEPT ![nd.prev].next = nd.next,
                                                       ![nd.next].prev = nd.prev],
                            !.current = IF pl.current = temp THEN nd.next ELSE pl.current]
      IN [pl |-> Collect([after EXCEPT !.size = pl.size - 1]), ret |-> nd.song]

\* a removeSong(title) that puts the cursor on the new head whenever it
\* unlinks the head
DLL_removeSong_HeadMovesCursor(pl, title) ==
    LET temp == FindFirst(pl, title) IN
    IF pl.head = NULL \/ temp = NULL THEN [pl |-> pl, ret |-> NoSong]
    ELSE
      LET nd == pl.nodes[temp]
          after ==
            IF pl.head = pl.tail
            THEN [pl EXCEPT !.head = NULL, !.tail = NULL, !.current = NULL]
            ELSE IF temp = pl.head
            THEN [pl EXCEPT !.head = nd.next,
                            !.nodes = [pl.nodes EXCEPT ![nd.next].prev = NULL],
                            !.current = nd.next]
            ELSE IF temp = pl.tail
            THEN [pl EXCEPT !.tail = nd.prev,
                            !.nodes = [pl.nodes EXCEPT ![nd.prev].next = NULL],
                            !.current = IF pl.current = temp THEN nd.prev ELSE pl.current]
            ELSE [pl EXCEPT !.nodes = [pl.nodes EXCEPT ![nd.prev].next = nd.next,
                                                       ![nd.next].prev = nd.prev],
                            !.current = IF pl.current = temp THEN nd.next ELSE pl.current]
      IN [pl |-> Collect([after EXCEPT !.size = pl.size - 1]), ret |-> nd.song]

\* removeSong(title): unlinks the first node with the title
DLL_removeSong(pl, title) ==
    LET temp == FindFirst(pl, title) IN
    IF pl.head = NULL \/ temp = NULL THEN [pl |-> pl, ret |-> NoSong]
    ELSE
      LET nd == pl.nodes[temp]
          after ==
            IF pl.head = pl.tail
            THEN [pl EXCEPT !.head = NULL, !.tail = NULL, !.current = NULL]
            ELSE IF temp = pl.head
            THEN [pl EXCEPT !.head = nd.next,
                            !.nodes = [pl.nodes EXCEPT ![nd.next].prev = NULL],
                            !.current = IF pl.current = temp THEN nd.next ELSE pl.current]
            ELSE IF temp = pl.tail
            THEN [pl EXCEPT !.tail = nd.prev,
                            !.nodes = [pl.nodes EXCEPT ![nd.prev].next = NULL],
                            !.current = IF pl.current = temp THEN nd.prev ELSE pl.current]
            ELSE [pl EXCEPT !.nodes = [pl.nodes EXCEPT ![nd.prev].next = nd.next,
                                                       ![nd.next].prev = nd.prev],
                            !.current = IF pl.current = temp THEN nd.next ELSE pl.current]
      IN [pl |-> Collect([after EXCEPT !.size = pl.size - 1]), ret |-> nd.song]

(* ------------- the list printed in ENHANCEMENTS_GUIDE.md -------------- *)

\* an addSong(song, index) that clamps the index into [0, size-1]
EDLL_addSong_ClampBelowSize(pl, song, index) ==
    IF song = NoSong THEN [pl |-> pl, ret |-> NoSong]
    ELSE
      LET n == NewId(pl)
          grown == (n :> SongNode(song)) @@ pl.nodes
          validIndex == Max(0, Min(index, pl.size - 1))
      IN IF pl.size = 0
         THEN [pl |-> Collect([pl EXCEPT !.nodes = grown, !.head = n, !.tail = n, !.current = n,
                                 !.size = 1]),
               ret |-> song]
         ELSE IF validIndex = 0
         THEN [pl |-> Collect([pl EXCEPT !.nodes = [grown EXCEPT ![n].next = pl.head,
                                                         ![pl.head].prev = n],
                                 !.head = n,
                                 !.size = pl.size + 1]),
               ret |-> song]
         ELSE IF validIndex >= pl.size
         THEN [pl |-> Collect([pl EXCEPT !.nodes = [grown EXCEPT ![n].prev = pl.tail,
                                                         ![pl.tail].next = n],
                                 !.tail = n,
                                 !.size = pl.size + 1]),
               ret |-> song]
         ELSE
           LET temp == Walk(pl.nodes, pl.head, validIndex)
               before == pl.nodes[temp].prev
               linked == [grown EXCEPT ![n].prev = before, ![n].next = temp]
               spliced == IF before # NULL
                          THEN [linked EXCEPT ![before].next = n, ![temp].prev = n]
                          ELSE [linked EXCEPT ![temp].prev = n]
           IN [pl |-> Collect([pl EXCEPT !.nodes = spliced,
                                 !.head = IF before = NULL THEN n ELSE pl.head,
                                 !.size = pl.size + 1]),
               ret |-> song]

\* an addSong(song, index) whose middle insert forgets the back link of the
\* node it is spliced in front of
EDLL_addSong_MiddleNoBackLink(pl, song, index) ==
    IF song = NoSong THEN [pl |-> pl, ret |-> NoSong]
    ELSE
      LET n == NewId(pl)
          grown == (n :> SongNode(song)) @@ pl.nodes
          validIndex == Max(0, Min(index, pl.size))
      IN IF pl.size = 0
         THEN [pl |-> Collect([pl EXCEPT !.nodes = grown, !.head = n, !.tail = n, !.current = n,
                                 !.size = 1]),
               ret |-> song]
         ELSE IF validIndex = 0
         THEN [pl |-> Collect([pl EXCEPT !.nodes = [grown EXCEPT ![n].next = pl.head,
                                                         ![pl.head].prev = n],
                                 !.head = n,
                                 !.size = pl.size + 1]),
               ret |-> song]
         ELSE IF validIndex >= pl.size
         THEN [pl |-> Collect([pl EXCEPT !.nodes = [grown EXCEPT ![n].prev = pl.tail,
                                                         ![pl.tail].next = n],
                                 !.tail = n,
                                 !.size = pl.size + 1]),
               ret |-> song]
         ELSE
           LET temp == Walk(pl.nodes, pl.head, validIndex)
               before == pl.nodes[temp].prev
               linked == [grown EXCEPT ![n].prev = before, ![n].next = temp]
               spliced == IF before # NULL
                          THEN [linked EXCEPT ![before].next = n]
                          ELSE [linked EXCEPT ![temp].prev = n]
           IN [pl |-> Collect([pl EXCEPT !.nodes = spliced,
                                 !.head = IF before = NULL THEN n ELSE pl.head,
                                 !.size = pl.size + 1]),
               ret |-> song]

\* an addSong(song, index) that leaves the cursor null on the empty list
EDLL_addSong_EmptyNoCursor(pl, song, index) ==
    IF song = NoSong THEN [pl |-> pl, ret |-> NoSong]
    ELSE
      LET n == NewId(pl)
          grown == (n :> SongNode(song)) @@ pl.nodes
          validIndex == Max(0, Min(index, pl.size))
      IN IF pl.size = 0
         THEN [pl |-> Collect([pl EXCEPT !.nodes = grown, !.head = n, !.tail = n,
                                 !.size = 1]),
               ret |-> song]
         ELSE IF validIndex = 0
         THEN [pl |-> Collect([pl EXCEPT !.nodes = [grown EXCEPT ![n].next = pl.head,
                                                         ![pl.head].prev = n],
                                 !.head = n,
                                 !.size = pl.size + 1]),
               ret |-> song]
         ELSE IF validIndex >= pl.size
         THEN [pl |-> Collect([pl EXCEPT !.nodes = [grown EXCEPT ![n].prev = pl.tail,
                                                         ![pl.tail].next = n],
                                 !.tail = n,
                                 !.size = pl.size + 1]),
               ret |-> song]
         ELSE
           LET temp == Walk(pl.nodes, pl.head, validIndex)
               before == pl.nodes[temp].prev
               linked == [grown EXCEPT ![n].prev = before, ![n].next = temp]
               spliced == IF before # NULL
                          THEN [linked EXCEPT ![before].next = n, ![temp].prev = n]
                          ELSE [linked EXCEPT ![temp].prev = n]
           IN [pl |-> Collect([pl EXCEPT !.nodes = spliced,
                                 !.head = IF before = NULL THEN n ELSE pl.head,
                                 !.size = pl.size + 1]),
               ret |-> song]

\* addSong(song, index = this.size)
EDLL_addSong(pl, song, index) ==
    IF song = NoSong THEN [pl |-> pl, ret |-> NoSong]
    ELSE
      LET n == NewId(pl)
          grown == (n :> SongNode(song)) @@ pl.nodes
          validIndex == Max(0, Min(index, pl.size))
      IN IF pl.size = 0
         THEN [pl |-> Collect([pl EXCEPT !.nodes = grown, !.head = n, !.tail = n, !.current = n,
                                 !.size = 1]),
               ret |-> song]
         ELSE IF validIndex = 0
         THEN [pl |-> Collect([pl EXCEPT !.nodes = [grown EXCEPT ![n].next = pl.head,
                                                         ![pl.head].prev = n],
                                 !.head = n,
                                 !.size = pl.size + 1]),
               ret |-> song]
         ELSE IF validIndex >= pl.size
         THEN [pl |-> Collect([pl EXCEPT !.nodes = [grown EXCEPT ![n].prev = pl.tail,
                                                         ![pl.tail].next = n],
                                 !.tail = n,
                                 !.size = pl.size + 1]),
               ret |-> song]
         ELSE
           LET temp == Walk(pl.nodes, pl.head, validIndex)
               before == pl.nodes[temp].prev
               linked == [grown EXCEPT ![n].prev = before, ![n].next = temp]
               spliced == IF before # NULL
                          THEN [linked EXCEPT ![before].next = n, ![temp].prev = n]
                          ELSE [linked EXCEPT ![temp].prev = n]
           IN [pl |-> Collect([pl EXCEPT !.nodes = spliced,
                                 !.head = IF before = NULL THEN n ELSE pl.head,
                                 !.size = pl.size + 1]),
               ret |-> song]

\* a removeSong(title) that repairs the cursor only when the list empties
EDLL_removeSong_KeepCursor(pl, title) ==
    LET temp == FindFirst(pl, title) IN
    IF pl.head = NULL \/ title = "" \/ temp = NULL THEN [pl |-> pl, ret |-> NoSong]
    ELSE
      LET nd == pl.nodes[temp]
          after ==
            IF pl.head = pl.tail
            THEN [pl EXCEPT !.head = NULL, !.tail = NULL, !.current = NULL, !.size = 0]
            ELSE IF temp = pl.head
            THEN [pl EXCEPT !.head = nd.next,
                            !.nodes = IF nd.next # NULL
                                      THEN [pl.nodes EXCEPT ![nd.next].prev = NULL]
                                      ELSE pl.nodes,
                            !.current = pl.current,
                            !.size = pl.size - 1]
            ELSE IF temp = pl.tail
            THEN [pl EXCEPT !.tail = nd.prev,
                            !.nodes = IF nd.prev # NULL
                                      THEN [pl.nodes EXCEPT ![nd.prev].next = NULL]
                                      ELSE pl.nodes,
                            !.current = pl.current,
                            !.size = pl.size - 1]
            ELSE [pl EXCEPT !.nodes = [pl.nodes EXCEPT ![nd.prev].next = nd.next,
                                                       ![nd.next].prev = nd.prev],
                            !.current = pl.current,
                            !.size = pl.size - 1]
      IN [pl |-> Collect(after), ret |-> nd.song]

\* removeSong(title)
EDLL_removeSong(pl, title) ==
    LET temp == FindFirst(pl, title) IN
    IF pl.head = NULL \/ title = "" \/ temp = NULL THEN [pl |-> pl, ret |-> NoSong]
    ELSE
      LET nd == pl.nodes[temp]
          after ==
            IF pl.head = pl.tail
            THEN [pl EXCEPT !.head = NULL, !.tail = NULL, !.current = NULL, !.size = 0]
            ELSE IF temp = pl.head
            THEN [pl EXCEPT !.head = nd.next,
                            !.nodes = IF nd.next # NULL
                                      THEN [pl.nodes EXCEPT ![nd.next].prev = NULL]
                                      ELSE pl.nodes,
                            !.current = IF pl.current = temp THEN nd.next ELSE pl.current,
                            !.size = pl.size - 1]
            ELSE IF temp = pl.tail
            THEN [pl EXCEPT !.tail = nd.prev,
                            !.nodes = IF nd.prev # NULL
                                      THEN [pl.nodes EXCEPT ![nd.prev].next = NULL]
                                      ELSE pl.nodes,
                            !.current = IF pl.current = temp THEN nd.prev ELSE pl.current,
                            !.size = pl.size - 1]
            ELSE [pl EXCEPT !.nodes = [pl.nodes EXCEPT ![nd.prev].next = nd.next,
                                                       ![nd.next].prev = nd.prev],
                            !.current = IF pl.current = temp
                                        THEN (IF nd.next # NULL THEN nd.next ELSE nd.prev)
                                        ELSE pl.current,
                            !.size = pl.size - 1]
      IN [pl |-> Collect(after), ret |-> nd.song]

\* a getIndex(title) that answers with the last match
EDLL_getIndex_LastMatch(pl, title) ==
    LET ids == ForwardIds(pl)
        hits == { k \in 1..Len(ids) : pl.nodes[ids[k]].song.title = title }
    IN IF title = "" \/ hits = {} THEN -1
       ELSE (CHOOSE k \in hits : \A m \in hits : k >= m) - 1

\* the while loop of getIndex: temp walks the next links from head and index
\* counts the nodes passed
RECURSIVE getIndex_loop(_, _, _, _)
getIndex_loop(nodes, temp, title, index) ==
    IF temp = NULL THEN -1
    ELSE IF nodes[temp].song.title = title THEN index
    ELSE getIndex_loop(nodes, nodes[temp].next, title, index + 1)

\* getIndex(title): 0-based index of the first match, or -1
EDLL_getIndex(pl, title) ==
    IF title = "" THEN -1 ELSE getIndex_loop(pl.nodes, pl.head, title, 0)

\* a moveCurrentToIndex(index) without the test for a negative index
EDLL_moveCurrentToIndex_NoLowerBound(pl, index) ==
    IF index >= pl.size \/ pl.size = 0 THEN [pl |-> pl, ret |-> FALSE]
    ELSE IF index = 0 THEN [pl |-> [pl EXCEPT !.current = pl.head], ret |-> TRUE]
    ELSE IF index = pl.size - 1 THEN [pl |-> [pl EXCEPT !.current = pl.tail], ret |-> TRUE]
    ELSE LET temp == Walk(pl.nodes, pl.head, Max(index, 0))
         IN IF temp # NULL THEN [pl |-> [pl EXCEPT !.current = temp], ret |-> TRUE]
            ELSE [pl |-> pl, ret |-> FALSE]

\* moveCurrentToIndex(index)
EDLL_moveCurrentToIndex(pl, index) ==
    IF index < 0 \/ index >= pl.size \/ pl.size = 0 THEN [pl |-> pl, ret |-> FALSE]
    ELSE IF index = 0 THEN [pl |-> [pl EXCEPT !.current = pl.head], ret |-> TRUE]
    ELSE IF index = pl.size - 1 THEN [pl |-> [pl EXCEPT !.current = pl.tail], ret |-> TRUE]
    ELSE LET temp == Walk(pl.nodes, pl.head, index)
         IN IF temp # NULL THEN [pl |-> [pl EXCEPT !.current = temp], ret |-> TRUE]
            ELSE [pl |-> pl, ret |-> FALSE]

(* ----------------- methods the two classes share ---------------------- *)

\* getCurrentSong()
getCurrentSong(pl) == IF pl.current # NULL THEN pl.nodes[pl.current].song ELSE NoSong

\* a playNext() that wraps around from the tail to the head
playNext_Wrap(pl) ==
    IF pl.current # NULL /\ pl.nodes[pl.current].next # NULL
    THEN [pl EXCEPT !.current = pl.nodes[pl.current].next]
    ELSE [pl EXCEPT !.current = pl.head]

\* playNext(): steps the cursor forward when there is a next node
playNext(pl) ==
    IF pl.current # NULL /\ pl.nodes[pl.current].next # NULL
    THEN [pl EXCEPT !.current = pl.nodes[pl.current].next]
    ELSE pl

\* playPrevious(): steps the cursor backward when there is a previous node
playPrevious(pl) ==
    IF pl.current # NULL /\ pl.nodes[pl.current].prev # NULL
    THEN [pl EXCEPT !.current = pl.nodes[pl.current].prev]
    ELSE pl

\* isEmpty()
isEmpty(pl) == pl.size = 0

\* getSize()
getSize(pl) == pl.size

\* traverseForward(callback): the songs handed to the callback, in order
traverseForward(pl) ==
    LET ids == ForwardIds(pl) IN [k \in 1..Len(ids) |-> pl.nodes[ids[k]].song]

\* traverseBackward(callback): the songs handed to the callback, in order
traverseBackward(pl) ==
    LET ids == BackwardIds(pl) IN [k \in 1..Len(ids) |-> pl.nodes[ids[k]].song]

(* ------------------------------ Stack --------------------------------- *)

\* new StackClass()
NewStack == [items |-> <<>>]

\* push(item)
Stack_push(st, item) == [st EXCEPT !.items = Append(st.items, item)]

\* isEmpty()
Stack_isEmpty(st) == Len(st.items) = 0

\* a pop() that takes the oldest item
Stack_pop_Oldest(st) ==
    IF Stack_isEmpty(st) THEN [st |-> st, item |-> <<>>]
    ELSE [st |-> [st EXCEPT !.items = SubSeq(st.items, 2, Len(st.items))],
          item |-> <<st.items[1]>>]

\* pop(): the top item as a one-element sequence, << >> for null
Stack_pop(st) ==
    IF Stack_isEmpty(st) THEN [st |-> st, item |-> <<>>]
    ELSE [st |-> [st EXCEPT !.items = SubSeq(st.items, 1, Len(st.items) - 1)],
          item |-> <<st.items[Len(st.items)]>>]

\* peek(): the top item as a one-element sequence, << >> for null
Stack_peek(st) ==
    IF Stack_isEmpty(st) THEN <<>> ELSE <<st.items[Len(st.items)]>>

\* a clear() that leaves the bottom item
Stack_clear_KeepBottom(st) == [st EXCEPT !.items = SubSeq(st.items, 1, Min(1, Len(st.items)))]

\* clear()
Stack_clear(st) == [st EXCEPT !.items = <<>>]

\* size()
Stack_size(st) == Len(st.items)

(* ------------------------ PlaylistController -------------------------- *)

\* new PlaylistController(DoublyLinkedListClass, StackClass)
NewController(cls) ==
    [playlist |-> NewList(cls), undoStack |-> NewStack, redoStack |-> NewStack,
     isInitializing |-> FALSE]

\* the list class has no such method: calling it raises a TypeError
Lacks(pl, method) ==
    pl.cls = SrcList /\ method \in {"getIndex", "moveCurrentToIndex"}

\* playlist.addSong(song, index) as dispatched on the list object; the result
\* is NoSong when the method returns nothing
L_addSong(pl, song, index) ==
    IF pl.cls = SrcList THEN [pl |-> DLL_addSong(pl, song), ret |-> NoSong]
    ELSE EDLL_addSong(pl, song, index)

\* playlist.removeSong(title) as dispatched on the list object
L_removeSong(pl, title) ==
    IF pl.cls = SrcList THEN DLL_removeSong(pl, title) ELSE EDLL_removeSong(pl, title)

\* cloneSong(song): JSON round trip, a fresh object with the same string
\* fields; allocation names the call that receives the new object
cloneSong(song, allocation) ==
    IF song = NoSong THEN NoSong
    ELSE [title |-> song.title, artist |-> song.artist, url |-> song.url,
          obj |-> allocation]

\* the required-field test of addSong and initializePlaylist
ValidSong(song) ==
    song # NoSong /\ song.title # "" /\ song.artist # "" /\ song.url # ""

\* getCurrentIndex()
getCurrentIndex(c) ==
    LET cur == getCurrentSong(c.playlist) IN
    IF cur = NoSong THEN [val |-> -1, threw |-> FALSE]
    ELSE IF Lacks(c.playlist, "getIndex") THEN [val |-> -1, threw |-> TRUE]
    ELSE [val |-> EDLL_getIndex(c.playlist, cur.title), threw |-> FALSE]

\* moveCurrentToIndex(index)
PC_moveCurrentToIndex(c, index) ==
    IF isEmpty(c.playlist) THEN [c |-> c, ok |-> FALSE, threw |-> FALSE]
    ELSE LET validIndex == Max(0, Min(index, getSize(c.playlist) - 1)) IN
         IF Lacks(c.playlist, "moveCurrentToIndex")
         THEN [c |-> c, ok |-> FALSE, threw |-> TRUE]
         ELSE [c |-> [c EXCEPT !.playlist = EDLL_moveCurrentToIndex(c.playlist, validIndex).pl],
               ok |-> TRUE, threw |-> FALSE]

\* recordAction(action) without the clearing of the redo log
recordAction_KeepRedo(c, action) ==
    IF c.isInitializing THEN c
    ELSE [c EXCEPT !.undoStack = Stack_push(c.undoStack, action)]

\* recordAction(action)
recordAction(c, action) ==
    IF c.isInitializing THEN c
    ELSE [c EXCEPT !.undoStack = Stack_push(c.undoStack, action),
                   !.redoStack = Stack_clear(c.redoStack)]

AddAction(song, index, before, after) ==
    [type |-> "ADD", song |-> song, index |-> index, previousCurrentIndex |-> before,
     currentIndexAfterAdd |-> after, currentIndexAfterRemove |-> Undefined]

RemoveAction(song, index, before, after) ==
    [type |-> "REMOVE", song |-> song, index |-> index, previousCurrentIndex |-> before,
     currentIndexAfterAdd |-> Undefined, currentIndexAfterRemove |-> after]

\* what a call of a public method leaves: the controller after it, the value
\* returned (NoSong for null), whether an exception escaped, how it ended
Result(c, ret, threw, outcome) ==
    [c |-> c, ret |-> ret, threw |-> threw, outcome |-> outcome]

\* return this.playlist.getCurrentSong()
ReturnCurrent(c, outcome) == Result(c, getCurrentSong(c.playlist), FALSE, outcome)

\* addSong(song) once the song is on the list: the action is built (its last
\* field reads the cursor index again) and recorded
addSong_record(c1, song, newIndex, previousCurrentIndex) ==
    LET indexAfter == getCurrentIndex(c1) IN
    IF indexAfter.threw THEN Result(c1, NoSong, TRUE, "threw")
    ELSE ReturnCurrent(recordAction(c1, AddAction(cloneSong(song, RecordCopy), newIndex,
                                                  previousCurrentIndex, indexAfter.val)),
                       "done")

\* an addSong(song) that hands the caller's own object to the list
addSong_append_NoCopy(c, song, previousCurrentIndex, newIndex) ==
    IF previousCurrentIndex.threw THEN Result(c, NoSong, TRUE, "threw")
    ELSE addSong_record(
           [c EXCEPT !.playlist = L_addSong(c.playlist, song, newIndex).pl],
           song, newIndex, previousCurrentIndex.val)

\* addSong(song) for a song that passed the field test
addSong_append(c, song, previousCurrentIndex, newIndex) ==
    IF previousCurrentIndex.threw THEN Result(c, NoSong, TRUE, "threw")
    ELSE addSong_record(
           [c EXCEPT !.playlist = L_addSong(c.playlist, cloneSong(song, ListCopy), newIndex).pl],
           song, newIndex, previousCurrentIndex.val)

\* addSong(song) whose rejection empties the redo log
PC_addSong_ClearOnReject(c, song) ==
    IF ~ValidSong(song)
    THEN ReturnCurrent([c EXCEPT !.redoStack = Stack_clear(c.redoStack)], "rejected")
    ELSE addSong_append(c, song, getCurrentIndex(c), getSize(c.playlist))

\* addSong(song)
PC_addSong(c, song) ==
    IF ~ValidSong(song) THEN ReturnCurrent(c, "rejected")
    ELSE addSong_append(c, song, getCurrentIndex(c), getSize(c.playlist))

\* removeSong(title) once the list has removed the song: the action is built
\* (its last field reads the cursor index again) and recorded
removeSong_record(c1, removedSong, index, previousCurrentIndex) ==
    LET indexAfter == getCurrentIndex(c1) IN
    IF indexAfter.threw THEN Result(c1, NoSong, TRUE, "threw")
    ELSE Result(recordAction(c1, RemoveAction(cloneSong(removedSong, RecordCopy), index,
                                              previousCurrentIndex, indexAfter.val)),
                removedSong, FALSE, "done")

\* removeSong(title) after playlist.removeSong(title) has returned
removeSong_removed(c, index, previousCurrentIndex, removed) ==
    IF removed.ret = NoSong
    THEN Result([c EXCEPT !.playlist = removed.pl], NoSong, FALSE, "notfound")
    ELSE removeSong_record([c EXCEPT !.playlist = removed.pl], removed.ret, index,
                           previousCurrentIndex)

\* removeSong(title) that empties the redo log before looking the title up
PC_removeSong_ClearFirst(c, title) ==
    LET c0 == [c EXCEPT !.redoStack = Stack_clear(c.redoStack)] IN
    IF title = "" THEN Result(c0, NoSong, FALSE, "rejected")
    ELSE IF Lacks(c0.playlist, "getIndex") THEN Result(c0, NoSong, TRUE, "threw")
    ELSE IF EDLL_getIndex(c0.playlist, title) = -1 THEN Result(c0, NoSong, FALSE, "notfound")
    ELSE removeSong_removed(c0, EDLL_getIndex(c0.playlist, title), getCurrentIndex(c0).val,
                            L_removeSong(c0.playlist, title))

\* removeSong(title)
PC_removeSong(c, title) ==
    IF title = "" THEN Result(c, NoSong, FALSE, "rejected")
    ELSE IF Lacks(c.playlist, "getIndex") THEN Result(c, NoSong, TRUE, "threw")
    ELSE IF EDLL_getIndex(c.playlist, title) = -1 THEN Result(c, NoSong, FALSE, "notfound")
    ELSE removeSong_removed(c, EDLL_getIndex(c.playlist, title), getCurrentIndex(c).val,
                            L_removeSong(c.playlist, title))

\* a playNext() that records the step as an action
PC_playNext_Recorded(c) ==
    ReturnCurrent(recordAction([c EXCEPT !.playlist = playNext(c.playlist)],
                               [type |-> "next"]),
                  "done")

\* playNext()
PC_playNext(c) == ReturnCurrent([c EXCEPT !.playlist = playNext(c.playlist)], "done")

\* playPrevious()
PC_playPrevious(c) == ReturnCurrent([c EXCEPT !.playlist = playPrevious(c.playlist)], "done")

\* canUndo()
canUndo(c) == ~Stack_isEmpty(c.undoStack)

\* canRedo()
canRedo(c) == ~Stack_isEmpty(c.redoStack)

\* a cursor restoration that leaves the cursor where navigation put it
RestoreCurrent_Skip(c, index) == [c |-> c, ok |-> FALSE, threw |-> FALSE]

\* the cursor restoration of undo and redo: moveCurrentToIndex when the
\* recorded index is defined and >= 0
RestoreCurrent(c, index) ==
    IF index # Undefined /\ index >= 0 THEN PC_moveCurrentToIndex(c, index)
    ELSE [c |-> c, ok |-> FALSE, threw |-> FALSE]

\* the end of undo() that empties the redo log before pushing the action on it
undo_moved_ClearRedo(action, moved) ==
    IF moved.threw
    THEN ReturnCurrent([moved.c EXCEPT !.undoStack = Stack_push(moved.c.undoStack, action)],
                       "error")
    ELSE ReturnCurrent([moved.c EXCEPT !.redoStack =
                                         Stack_push(Stack_clear(moved.c.redoStack), action)],
                       "done")

\* the end of undo(): an exception raised while restoring the cursor is caught
\* and the action goes back on the undo log; otherwise it goes on the redo log
undo_moved(action, moved) ==
    IF moved.threw
    THEN ReturnCurrent([moved.c EXCEPT !.undoStack = Stack_push(moved.c.undoStack, action)],
                       "error")
    ELSE ReturnCurrent([moved.c EXCEPT !.redoStack = Stack_push(moved.c.redoStack, action)],
                       "done")

\* undo() whose failure branch drops the popped action
undo_reversed_DropOnFailure(c0, action, changed) ==
    IF changed.ret = NoSong
    THEN ReturnCurrent([c0 EXCEPT !.playlist = changed.pl], "failed")
    ELSE undo_moved(action, RestoreCurrent([c0 EXCEPT !.playlist = changed.pl],
                                           action.previousCurrentIndex))

\* undo() after the list call that reverses the action: a falsy result puts
\* the action back on the undo log, otherwise the cursor is restored
undo_reversed(c0, action, changed) ==
    IF changed.ret = NoSong
    THEN ReturnCurrent([c0 EXCEPT !.playlist = changed.pl,
                                  !.undoStack = Stack_push(c0.undoStack, action)],
                       "failed")
    ELSE undo_moved(action, RestoreCurrent([c0 EXCEPT !.playlist = changed.pl],
                                           action.previousCurrentIndex))

\* an undo() that puts a removed song back at the end of the list
undo_reverse_Append(c0, action) ==
    undo_reversed(c0, action,
                  IF action.type = "ADD"
                  THEN L_removeSong(c0.playlist, action.song.title)
                  ELSE L_addSong(c0.playlist, cloneSong(action.song, ListCopy),
                                 getSize(c0.playlist)))

\* undo() with the action popped: an ADD is reversed by removeSong(title), a
\* REMOVE by addSong(copy, index)
undo_reverse(c0, action) ==
    undo_reversed(c0, action,
                  IF action.type = "ADD"
                  THEN L_removeSong(c0.playlist, action.song.title)
                  ELSE L_addSong(c0.playlist, cloneSong(action.song, ListCopy), action.index))

\* undo() that empties the redo log when there is nothing to undo
PC_undo_ClearOnEmpty(c) ==
    IF Stack_isEmpty(c.undoStack)
    THEN Result([c EXCEPT !.redoStack = Stack_clear(c.redoStack)], NoSong, FALSE, "nothing")
    ELSE LET popped == Stack_pop(c.undoStack)
         IN undo_reverse([c EXCEPT !.undoStack = popped.st], popped.item[1])

\* undo()
PC_undo(c) ==
    IF Stack_isEmpty(c.undoStack) THEN Result(c, NoSong, FALSE, "nothing")
    ELSE LET popped == Stack_pop(c.undoStack)
         IN undo_reverse([c EXCEPT !.undoStack = popped.st], popped.item[1])

\* the end of redo(): an exception raised while restoring the cursor is caught
\* and the action goes back on the redo log; otherwise it goes on the undo log
redo_moved(action, moved) ==
    IF moved.threw
    THEN ReturnCurrent([moved.c EXCEPT !.redoStack = Stack_push(moved.c.redoStack, action)],
                       "error")
    ELSE ReturnCurrent([moved.c EXCEPT !.undoStack = Stack_push(moved.c.undoStack, action)],
                       "done")

\* redo() whose failure branch drops the popped action
redo_reapplied_DropOnFailure(c0, action, changed) ==
    IF changed.ret = NoSong
    THEN ReturnCurrent([c0 EXCEPT !.playlist = changed.pl], "failed")
    ELSE redo_moved(action,
                    RestoreCurrent([c0 EXCEPT !.playlist = changed.pl],
                                   IF action.type = "ADD" THEN action.currentIndexAfterAdd
                                   ELSE action.currentIndexAfterRemove))

\* redo() after the list call that re-applies the action: a falsy result puts
\* the action back on the redo log, otherwise the cursor is restored
redo_reapplied(c0, action, changed) ==
    IF changed.ret = NoSong
    THEN ReturnCurrent([c0 EXCEPT !.playlist = changed.pl,
                                  !.redoStack = Stack_push(c0.redoStack, action)],
                       "failed")
    ELSE redo_moved(action,
                    RestoreCurrent([c0 EXCEPT !.playlist = changed.pl],
                                   IF action.type = "ADD" THEN action.currentIndexAfterAdd
                                   ELSE action.currentIndexAfterRemove))

\* redo() with the action popped: an ADD is re-applied by addSong(copy, index),
\* a REMOVE by removeSong(title)
redo_reapply(c0, action) ==
    redo_reapplied(c0, action,
                   IF action.type = "ADD"
                   THEN L_addSong(c0.playlist, cloneSong(action.song, ListCopy), action.index)
                   ELSE L_removeSong(c0.playlist, action.song.title))

\* redo()
PC_redo(c) ==
    IF Stack_isEmpty(c.redoStack) THEN Result(c, NoSong, FALSE, "nothing")
    ELSE LET popped == Stack_pop(c.redoStack)
         IN redo_reapply([c EXCEPT !.redoStack = popped.st], popped.item[1])

\* the forEach of initializePlaylist: addSong for each entry that passes the
\* field test; an exception leaves the loop
RECURSIVE SeedAll(_, _)
SeedNext(r, rest) ==
    IF r.threw THEN [c |-> r.c, threw |-> TRUE] ELSE SeedAll(r.c, rest)

SeedAll(c, songs) ==
    IF songs = <<>> THEN [c |-> c, threw |-> FALSE]
    ELSE IF ~ValidSong(Head(songs)) THEN SeedAll(c, Tail(songs))
    ELSE SeedNext(PC_addSong(c, Head(songs)), Tail(songs))

\* a finally block of initializePlaylist that forgets the undo log
initialize_finally_KeepUndo(seeded) ==
    Result([seeded.c EXCEPT !.isInitializing = FALSE,
                            !.redoStack = Stack_clear(seeded.c.redoStack)],
           NoSong, seeded.threw, IF seeded.threw THEN "threw" ELSE "done")

\* the finally block of initializePlaylist; an exception of the loop goes on
\* to the caller
initialize_finally(seeded) ==
    Result([seeded.c EXCEPT !.isInitializing = FALSE,
                            !.undoStack = Stack_clear(seeded.c.undoStack),
                            !.redoStack = Stack_clear(seeded.c.redoStack)],
           NoSong, seeded.threw, IF seeded.threw THEN "threw" ELSE "done")

\* an argument of initializePlaylist: an array with its entries, or a value
\* for which Array.isArray is false
ArrayOf(entries) == [isArray |-> TRUE, items |-> entries]
NotAnArray == [isArray |-> FALSE, items |-> <<>>]

\* initializePlaylist(songs)
initializePlaylist(c, songs) ==
    IF ~songs.isArray THEN Result(c, NoSong, FALSE, "rejected")
    ELSE initialize_finally(SeedAll([c EXCEPT !.isInitializing = TRUE], songs.items))

(* --------------------------- state machine ---------------------------- *)

VARIABLES
    playlist,        \* controller.playlist: the list object and its nodes
    undoStack,       \* controller.undoStack
    redoStack,       \* controller.redoStack
    isInitializing,  \* controller.isInitializing
    last             \* the latest call: method, how it ended, log sizes it found

vars == <<playlist, undoStack, redoStack, isInitializing, last>>

\* the controller object as one record
Ctl == [playlist |-> playlist, undoStack |-> undoStack, redoStack |-> redoStack,
        isInitializing |-> isInitializing]

CtlNext == [playlist |-> playlist', undoStack |-> undoStack', redoStack |-> redoStack',
            isInitializing |-> isInitializing']

\* no call has been made yet
Quiet == [op |-> "other", outcome |-> "none", undoBefore |-> 0, redoBefore |-> 0]

\* the mark left by a call: the method, how it ended and the log sizes it found
Call(op, r) ==
    [op |-> op, outcome |-> r.outcome,
     undoBefore |-> Stack_size(undoStack), redoBefore |-> Stack_size(redoStack)]

\* 0-based position of the cursor node in the chain from head, -1 if none
CurrentPos(pl) ==
    LET ids == ForwardIds(pl)
        at == { k \in 1..Len(ids) : ids[k] = pl.current }
    IN IF at = {} THEN -1 ELSE (CHOOSE k \in at : TRUE) - 1

\* the mark left by playNext(), playPrevious(), undo() and redo(): as Call,
\* with the position the cursor had
Step(op, r) ==
    [op |-> op, outcome |-> r.outcome, posBefore |-> CurrentPos(playlist),
     undoBefore |-> Stack_size(undoStack), redoBefore |-> Stack_size(redoStack)]

\* the exploration stays within MaxSize songs and MaxLog action records
InBounds(c) ==
    /\ c.playlist.size <= MaxSize
    /\ Stack_size(c.undoStack) + Stack_size(c.redoStack) <= MaxLog

\* arrays handed to initializePlaylist
RECURSIVE SeqsUpTo(_, _)
SeqsUpTo(S, n) ==
    IF n = 0 THEN {<<>>}
    ELSE LET shorter == SeqsUpTo(S, n - 1)
         IN shorter \cup { Append(q, x) : q \in shorter, x \in S }

\* entries of the arrays handed to initializePlaylist, one of them invalid
InitInputs == {MkSong("A", "x", "u"), MkSong("B", "x", "u"), MkSong("", "x", "u")}

\* arguments handed to initializePlaylist
InitArgs == { ArrayOf(q) : q \in SeqsUpTo(InitInputs, MaxInit) } \cup {NotAnArray}

Init ==
    \E cls \in ListClasses :
        /\ playlist = NewList(cls)
        /\ undoStack = NewStack
        /\ redoStack = NewStack
        /\ isInitializing = FALSE
        /\ last = Quiet

AddSong ==
    \E song \in SongInputs :
        \E r \in {PC_addSong(Ctl, song)} :
        /\ InBounds(r.c)
        /\ playlist' = r.c.playlist
        /\ undoStack' = r.c.undoStack
        /\ redoStack' = r.c.redoStack
        /\ isInitializing' = r.c.isInitializing
        /\ last' = Call("addSong", r)

RemoveSong ==
    \E title \in TitleInputs :
        \E r \in {PC_removeSong(Ctl, title)} :
        /\ InBounds(r.c)
        /\ playlist' = r.c.playlist
        /\ undoStack' = r.c.undoStack
        /\ redoStack' = r.c.redoStack
        /\ isInitializing' = r.c.isInitializing
        /\ last' = Call("removeSong", r)

PlayNext ==
    \E r \in {PC_playNext(Ctl)} :
        /\ playlist' = r.c.playlist
        /\ last' = Step("playNext", r)
        /\ UNCHANGED <<undoStack, redoStack, isInitializing>>

PlayPrevious ==
    \E r \in {PC_playPrevious(Ctl)} :
        /\ playlist' = r.c.playlist
        /\ last' = Step("playPrevious", r)
        /\ UNCHANGED <<undoStack, redoStack, isInitializing>>

Undo ==
    \E r \in {PC_undo(Ctl)} :
        /\ InBounds(r.c)
        /\ playlist' = r.c.playlist
        /\ undoStack' = r.c.undoStack
        /\ redoStack' = r.c.redoStack
        /\ isInitializing' = r.c.isInitializing
        /\ last' = Step("undo", r)

Redo ==
    \E r \in {PC_redo(Ctl)} :
        /\ InBounds(r.c)
        /\ playlist' = r.c.playlist
        /\ undoStack' = r.c.undoStack
        /\ redoStack' = r.c.redoStack
        /\ isInitializing' = r.c.isInitializing
        /\ last' = Step("redo", r)

Initialize ==
    \E songs \in InitArgs :
        \E r \in {initializePlaylist(Ctl, songs)} :
        /\ InBounds(r.c)
        /\ playlist' = r.c.playlist
        /\ undoStack' = r.c.undoStack
        /\ redoStack' = r.c.redoStack
        /\ isInitializing' = r.c.isInitializing
        /\ last' = Call("initializePlaylist", r)

MoveCurrentToIndex ==
    \E index \in -1..MaxSize :
        \E r \in {PC_moveCurrentToIndex(Ctl, index)} :
        /\ playlist' = r.c.playlist
        /\ last' = [op |-> "moveCurrentToIndex",
                    outcome |-> IF r.threw THEN "threw" ELSE IF r.ok THEN "done" ELSE "nothing",
                    undoBefore |-> Stack_size(undoStack),
                    redoBefore |-> Stack_size(redoStack)]
        /\ UNCHANGED <<undoStack, redoStack, isInitializing>>

Next ==
    \/ AddSong
    \/ RemoveSong
    \/ PlayNext
    \/ PlayPrevious
    \/ Undo
    \/ Redo
    \/ Initialize
    \/ MoveCurrentToIndex

\* the controller driven through its public methods only
Spec == Init /\ [][Next]_vars

\* the node playlist.removeSong(title) unlinks, named after the case of the
\* method that handles it
RemovedNode(pl, title) ==
    LET temp == FindFirst(pl, title) IN
    IF pl.head = NULL \/ temp = NULL THEN "none"
    ELSE IF pl.head = pl.tail THEN "only"
    ELSE IF temp = pl.head THEN "head"
    ELSE IF temp = pl.tail THEN "tail"
    ELSE "middle"

\* a caller reaching through the controller's playlist field:
\* controller.playlist.removeSong(title)
ListRemoveSong ==
    \E title \in Titles :
        \E r \in {L_removeSong(playlist, title)} :
        /\ playlist' = r.pl
        /\ last' = [op |-> "playlist.removeSong",
                    outcome |-> IF r.ret = NoSong THEN "notfound" ELSE "done",
                    title |-> title,
                    removed |-> RemovedNode(playlist, title),
                    atCursor |-> FindFirst(playlist, title) = playlist.current,
                    undoBefore |-> Stack_size(undoStack),
                    redoBefore |-> Stack_size(redoStack)]
        /\ UNCHANGED <<undoStack, redoStack, isInitializing>>

NextDirect ==
    \/ AddSong
    \/ RemoveSong
    \/ PlayNext
    \/ PlayPrevious
    \/ Undo
    \/ Redo
    \/ ListRemoveSong

\* add, remove, navigate, undo and redo through the controller, with a caller
\* that also removes songs from the list object behind the controller's back
SpecDirect == Init /\ [][NextDirect]_vars

\* a caller of the list object itself: playlist.addSong(song, index); the
\* list of structures/DoublyLinkedList.js ignores the index
ListAddSong ==
    \E song \in ValidSongs, index \in -1..MaxSize :
        \E r \in {L_addSong(playlist, song, index)} :
        /\ r.pl.size <= MaxSize
        /\ playlist' = r.pl
        /\ last' = [op |-> "playlist.addSong", outcome |-> "done",
                    song |-> song, index |-> index,
                    undoBefore |-> Stack_size(undoStack),
                    redoBefore |-> Stack_size(redoStack)]
        /\ UNCHANGED <<undoStack, redoStack, isInitializing>>

\* a caller of the list object itself: playlist.getIndex(title), which the
\* list of structures/DoublyLinkedList.js does not have
ListGetIndex ==
    \E title \in TitleInputs :
        /\ last' = [op |-> "playlist.getIndex",
                    outcome |-> IF Lacks(playlist, "getIndex") THEN "threw" ELSE "done",
                    title |-> title,
                    ret |-> IF Lacks(playlist, "getIndex") THEN Undefined
                            ELSE EDLL_getIndex(playlist, title),
                    undoBefore |-> Stack_size(undoStack),
                    redoBefore |-> Stack_size(redoStack)]
        /\ UNCHANGED <<playlist, undoStack, redoStack, isInitializing>>

\* a caller of the list object itself: playlist.moveCurrentToIndex(index),
\* which the list of structures/DoublyLinkedList.js does not have
ListMoveCurrentToIndex ==
    \E index \in -1..MaxSize :
        \E r \in {EDLL_moveCurrentToIndex(playlist, index)} :
        /\ playlist' = IF Lacks(playlist, "moveCurrentToIndex") THEN playlist ELSE r.pl
        /\ last' = [op |-> "playlist.moveCurrentToIndex",
                    outcome |-> IF Lacks(playlist, "moveCurrentToIndex") THEN "threw"
                                ELSE IF r.ret THEN "done" ELSE "nothing",
                    index |-> index,
                    undoBefore |-> Stack_size(undoStack),
                    redoBefore |-> Stack_size(redoStack)]
        /\ UNCHANGED <<undoStack, redoStack, isInitializing>>

NextList ==
    \/ ListAddSong
    \/ ListRemoveSong
    \/ ListGetIndex
    \/ ListMoveCurrentToIndex
    \/ PlayNext
    \/ PlayPrevious

\* the list object on its own: every sequence of addSong, removeSong,
\* getIndex, moveCurrentToIndex, playNext and playPrevious calls, on either
\* list class
SpecList == Init /\ [][NextList]_vars

(* ------------------------ a Stack on its own -------------------------- *)

\* items pushed by a caller of the Stack class
StackItems == {"a", "b"}

\* new Stack(), held in undoStack; last counts the push() calls and the pop()
\* calls that returned an item since construction or the latest clear()
InitStack ==
    /\ playlist = NewList(SrcList)
    /\ undoStack = NewStack
    /\ redoStack = NewStack
    /\ isInitializing = FALSE
    /\ last = [op |-> "new Stack", ret |-> <<>>, pushes |-> 0, pops |-> 0]

StackPush ==
    \E item \in StackItems :
        /\ Stack_size(undoStack) < MaxDepth
        /\ last.pushes < MaxPushes
        /\ undoStack' = Stack_push(undoStack, item)
        /\ last' = [op |-> "push", ret |-> <<>>, pushes |-> last.pushes + 1, pops |-> last.pops]
        /\ UNCHANGED <<playlist, redoStack, isInitializing>>

StackPop ==
    \E r \in {Stack_pop(undoStack)} :
        /\ undoStack' = r.st
        /\ last' = [op |-> "pop", ret |-> r.item, pushes |-> last.pushes,
                    pops |-> IF r.item = <<>> THEN last.pops ELSE last.pops + 1]
        /\ UNCHANGED <<playlist, redoStack, isInitializing>>

StackPeek ==
    /\ last' = [op |-> "peek", ret |-> Stack_peek(undoStack), pushes |-> last.pushes,
                pops |-> last.pops]
    /\ UNCHANGED <<playlist, undoStack, redoStack, isInitializing>>

StackClear ==
    /\ undoStack' = Stack_clear(undoStack)
    /\ last' = [op |-> "clear", ret |-> <<>>, pushes |-> 0, pops |-> 0]
    /\ UNCHANGED <<playlist, redoStack, isInitializing>>

NextStack ==
    \/ StackPush
    \/ StackPop
    \/ StackPeek
    \/ StackClear

\* the Stack class on its own: every sequence of push, pop, peek and clear
SpecStack == InitStack /\ [][NextStack]_vars

(* ------------------------- observable state --------------------------- *)

\* what a caller sees of the list: song order, size, cursor song
View(c) ==
    [songs |-> traverseForward(c.playlist), size |-> getSize(c.playlist),
     current |-> getCurrentSong(c.playlist)]

\* the cursor as a caller can tell it: its song and its position
CursorOf(c) == [song |-> getCurrentSong(c.playlist), pos |-> CurrentPos(c.playlist)]

\* the view together with both logs
LoggedView(c) ==
    [songs |-> traverseForward(c.playlist), size |-> getSize(c.playlist),
     current |-> getCurrentSong(c.playlist),
     undo |-> c.undoStack.items, redo |-> c.redoStack.items]

\* the latest call was a recorded addSong or removeSong
Recorded == last.op \in {"addSong", "removeSong"} /\ last.outcome = "done"

(* ------------------------------ claims -------------------------------- *)

\* C1: for every valid song S, addSong(S) followed at once by undo() gives
\* back the size and the cursor of the state before the add, and a redo()
\* after that undo gives back the song order, size and cursor song the add
\* had produced.
C1_AddUndoRedoRoundTrip ==
    [][ (last'.op = "addSong" /\ last'.outcome \in {"done", "threw"}) =>
          LET undone == PC_undo(CtlNext).c
              redone == PC_redo(undone).c
          IN /\ getSize(undone.playlist) = getSize(playlist)
             /\ CursorOf(undone) = CursorOf(Ctl)
             /\ View(redone) = View(CtlNext) ]_vars

\* C2: for every title present in the playlist, removeSong(title) followed at
\* once by undo() gives back the song order, the size and the cursor song of
\* the state before the removal.
C2_RemoveUndoRestores ==
    [][ (last'.op = "removeSong" /\ last'.outcome \in {"done", "threw"}) =>
          View(PC_undo(CtlNext).c) = View(Ctl) ]_vars

\* C3: removeSong(title); undo(); redo() leaves the same song order, size,
\* cursor song and log contents as removeSong(title) alone.
C3_RemoveUndoRedoIsRemove ==
    [][ (last'.op = "removeSong" /\ last'.outcome \in {"done", "threw"}) =>
          LoggedView(PC_redo(PC_undo(CtlNext).c).c) = LoggedView(CtlNext) ]_vars

\* C4: right after an addSong or removeSong that was recorded (outside bulk
\* seeding) the redo log is empty, canRedo() is false, and redo() returns null
\* and changes nothing.
C4_NewActionClearsRedo ==
    Recorded =>
        /\ ~canRedo(Ctl)
        /\ Stack_isEmpty(redoStack)
        /\ PC_redo(Ctl).outcome = "nothing"
        /\ PC_redo(Ctl).ret = NoSong
        /\ PC_redo(Ctl).c = Ctl

\* C4 witness: a recorded addSong that found undone actions on the redo log
C4_Witness ==
    /\ last.op = "addSong" /\ last.outcome = "done"
    /\ last.redoBefore >= 1
    /\ Stack_size(undoStack) = 2

\* a step in which the redo log is emptied otherwise than by redo() moving
\* its last record to the undo log
RedoLogCleared ==
    /\ canRedo(Ctl)
    /\ ~canRedo(CtlNext)
    /\ ~(/\ last'.op = "redo"
         /\ Stack_size(redoStack) = 1
         /\ undoStack' = Stack_push(undoStack, Stack_peek(redoStack)[1]))

\* C5 as stated: every step that clears a non-empty redo log is a recorded
\* addSong or removeSong.
C5_OnlyForwardActionClearsRedo ==
    [][ RedoLogCleared => (last'.op \in {"addSong", "removeSong"} /\ last'.outcome = "done")
      ]_vars

\* C5 amended: every step that clears a non-empty redo log is a recorded
\* addSong or removeSong, or an initializePlaylist call (which clears both
\* logs).
C5_OnlyForwardActionOrInitializeClearsRedo ==
    [][ RedoLogCleared =>
          \/ last'.op \in {"addSong", "removeSong"} /\ last'.outcome = "done"
          \/ last'.op = "initializePlaylist" /\ Stack_isEmpty(undoStack')
      ]_vars

\* C5 witness: initializePlaylist has just discarded a non-empty redo log
C5_Witness ==
    /\ last.op = "initializePlaylist"
    /\ last.redoBefore >= 1
    /\ Stack_isEmpty(redoStack)

\* C6: a successful undo() takes the top record off the undo log and puts
\* that record on top of the redo log, whose other records stay; a successful
\* redo() does the converse; and no undo() or redo() call, successful or not,
\* changes the number of records held by the two logs together.
C6_UndoRedoMoveOneAction ==
    [][ /\ (last'.op = "undo" /\ last'.outcome = "done") =>
              /\ canUndo(Ctl)
              /\ undoStack'.items = SubSeq(undoStack.items, 1, Stack_size(undoStack) - 1)
              /\ redoStack'.items = Append(redoStack.items, Stack_peek(undoStack)[1])
        /\ (last'.op = "redo" /\ last'.outcome = "done") =>
              /\ canRedo(Ctl)
              /\ redoStack'.items = SubSeq(redoStack.items, 1, Stack_size(redoStack) - 1)
              /\ undoStack'.items = Append(undoStack.items, Stack_peek(redoStack)[1])
        /\ (Undo \/ Redo) =>
              Stack_size(undoStack') + Stack_size(redoStack')
                = Stack_size(undoStack) + Stack_size(redoStack) ]_vars

\* C6 witness: an undo() has just succeeded while the redo log already held
\* a record
C6_Witness ==
    /\ last.op = "undo" /\ last.outcome = "done"
    /\ last.redoBefore >= 1
    /\ Stack_size(redoStack) = last.redoBefore + 1

\* C7: size() is the number of songs reachable from head, and isEmpty() holds
\* exactly when there is none.
C7_SizeCountsLiveSongs ==
    /\ getSize(playlist) = Len(traverseForward(playlist))
    /\ isEmpty(playlist) <=> (Len(traverseForward(playlist)) = 0)
    /\ isEmpty(playlist) <=> (getSize(playlist) = 0)

\* C7 witness: removeSong of structures/DoublyLinkedList.js has just shortened
\* a list that still holds two songs
C7_Witness ==
    /\ last.op = "playlist.removeSong" /\ last.outcome = "done"
    /\ playlist.cls = SrcList
    /\ getSize(playlist) = 2
    /\ Len(traverseForward(playlist)) = 2

\* C8: no two songs of the playlist have the same title.
C8_TitlesUnique ==
    LET songs == traverseForward(playlist)
    IN \A i, j \in 1..Len(songs) : songs[i].title = songs[j].title => i = j

\* C9: an undo() that cannot reverse the popped action (an ADD whose title is
\* no longer in the list, or any other failure) puts the action back on top
\* of the undo log and leaves the list, the cursor and both logs as they were.
C9_FailedUndoChangesNothing ==
    [][ (Undo /\ PC_undo(Ctl).outcome \in {"failed", "error"}) =>
          /\ CtlNext = Ctl
          /\ Stack_peek(undoStack') = Stack_peek(undoStack) ]_vars

\* C9 witness: undo() has just failed on an ADD whose title is not in the list
C9_Witness ==
    /\ last.op = "undo" /\ last.outcome = "failed"
    /\ canUndo(Ctl)
    /\ Stack_peek(undoStack)[1].type = "ADD"
    /\ EDLL_getIndex(playlist, Stack_peek(undoStack)[1].song.title) = -1

\* C10: a redo() that cannot re-apply the popped action puts it back on top
\* of the redo log and changes nothing else, so a second redo() meets the
\* same logs, list and cursor.
C10_FailedRedoChangesNothing ==
    [][ (Redo /\ PC_redo(Ctl).outcome \in {"failed", "error"}) =>
          /\ CtlNext = Ctl
          /\ Stack_peek(redoStack') = Stack_peek(redoStack)
          /\ PC_redo(CtlNext).c = CtlNext ]_vars

\* C10 witness: redo() has just failed on a REMOVE whose title is not in the
\* list
C10_Witness ==
    /\ last.op = "redo" /\ last.outcome = "failed"
    /\ canRedo(Ctl)
    /\ Stack_peek(redoStack)[1].type = "REMOVE"
    /\ EDLL_getIndex(playlist, Stack_peek(redoStack)[1].song.title) = -1

\* C11: addSong(song) with no song, or with an empty title, artist or url,
\* returns the current song and leaves the list, the cursor and both logs as
\* they were.
C11_InvalidAddIsNoOp ==
    \A song \in InvalidSongs :
        /\ PC_addSong(Ctl, song).c = Ctl
        /\ PC_addSong(Ctl, song).ret = getCurrentSong(playlist)
        /\ ~PC_addSong(Ctl, song).threw

\* C11 witness: addSong has just rejected its argument while the playlist held
\* a song and the redo log a record
C11_Witness ==
    /\ last.op = "addSong" /\ last.outcome = "rejected"
    /\ last.redoBefore >= 1
    /\ canRedo(Ctl)
    /\ getSize(playlist) >= 1

\* C12: removeSong(title) with an empty title or a title that is not in the
\* playlist returns null without raising, and leaves the list, the cursor and
\* both logs as they were.
C12_AbsentRemoveIsNoOp ==
    \A title \in TitleInputs :
        (title = "" \/ FindFirst(playlist, title) = NULL) =>
            /\ PC_removeSong(Ctl, title).c = Ctl
            /\ PC_removeSong(Ctl, title).ret = NoSong
            /\ ~PC_removeSong(Ctl, title).threw

\* C13: undo() on an empty undo log and redo() on an empty redo log return
\* null and leave the list, the cursor and both logs as they were.
C13_EmptyLogIsNoOp ==
    /\ ~canUndo(Ctl) => /\ PC_undo(Ctl).c = Ctl
                        /\ PC_undo(Ctl).ret = NoSong
                        /\ ~PC_undo(Ctl).threw
    /\ ~canRedo(Ctl) => /\ PC_redo(Ctl).c = Ctl
                        /\ PC_redo(Ctl).ret = NoSong
                        /\ ~PC_redo(Ctl).threw

\* C13 witness: undo() has just found the undo log empty while the redo log
\* held a record, and the redo log still holds it
C13_Witness ==
    /\ last.op = "undo" /\ last.outcome = "nothing"
    /\ last.undoBefore = 0
    /\ last.redoBefore >= 1
    /\ Stack_size(redoStack) = last.redoBefore

\* C14: no call of a controller method ever ends with an exception raised to
\* the caller.
C14_NoOperationRaises == last.outcome # "threw"

\* C15 as stated: after initializePlaylist(songs), whatever the argument and
\* whatever the logs held, both logs are empty.
C15_InitializeEmptiesLogs ==
    \A songs \in InitArgs :
        /\ ~canUndo(initializePlaylist(Ctl, songs).c)
        /\ ~canRedo(initializePlaylist(Ctl, songs).c)

\* C15 amended: after initializePlaylist(songs) with songs an array, whatever
\* its entries and whatever the logs held, both logs are empty; with an
\* argument that is not an array the call returns at once and leaves the
\* controller as it was.
C15_InitializeWithArrayEmptiesLogs ==
    \A songs \in InitArgs :
        IF songs.isArray
        THEN /\ ~canUndo(initializePlaylist(Ctl, songs).c)
             /\ ~canRedo(initializePlaylist(Ctl, songs).c)
        ELSE initializePlaylist(Ctl, songs).c = Ctl

\* C15 witness: initializePlaylist has just run on a controller whose undo log
\* held a record, and both logs are empty
C15_Witness ==
    /\ last.op = "initializePlaylist" /\ last.outcome = "done"
    /\ last.undoBefore >= 1
    /\ ~canUndo(Ctl)
    /\ ~canRedo(Ctl)
    /\ getSize(playlist) >= 2

\* C16: initializePlaylist(songs) leaves the previous list followed by the
\* entries of songs that have a non-empty title, artist and url, in the order
\* of songs (song for song the same title, artist and url).
C16_InitializeAppendsValidEntries ==
    \A songs \in InitArgs :
        songs.isArray =>
            LET result == traverseForward(initializePlaylist(Ctl, songs).c.playlist)
                expected == traverseForward(playlist) \o SelectSeq(songs.items, ValidSong)
            IN /\ Len(result) = Len(expected)
               /\ \A k \in 1..Len(result) : SongData(result[k]) = SongData(expected[k])

\* C17: playNext() and playPrevious() never raise and are not recorded: they
\* leave the undo log, the redo log, the song order and the size as they were
\* and change nothing but the cursor.
C17_NavigationIsNotRecorded ==
    \A r \in {PC_playNext(Ctl), PC_playPrevious(Ctl)} :
        /\ ~r.threw
        /\ r.c.undoStack = undoStack
        /\ r.c.redoStack = redoStack
        /\ traverseForward(r.c.playlist) = traverseForward(playlist)
        /\ traverseBackward(r.c.playlist) = traverseBackward(playlist)
        /\ getSize(r.c.playlist) = getSize(playlist)
        /\ [r.c EXCEPT !.playlist.current = playlist.current] = Ctl

\* C17 witness: playNext() has just run on a playlist of two or more songs
\* with a non-empty undo log, the cursor stands past the head and the log is
\* as long as it was
C17_Witness ==
    /\ last.op = "playNext"
    /\ last.undoBefore >= 1
    /\ Stack_size(undoStack) = last.undoBefore
    /\ getSize(playlist) >= 2
    /\ CurrentPos(playlist) >= 1

\* C18: removeSong(title) unlinking the cursor's own node, when that node has
\* both a previous and a next neighbour, leaves the cursor on the former next
\* neighbour: the cursor keeps its position and shows the song that followed.
C18_MiddleRemovalMovesCursorToNext ==
    \A title \in Titles :
        (/\ playlist.current # NULL
         /\ FindFirst(playlist, title) = playlist.current
         /\ playlist.nodes[playlist.current].prev # NULL
         /\ playlist.nodes[playlist.current].next # NULL)
        => /\ CurrentPos(L_removeSong(playlist, title).pl) = CurrentPos(playlist)
           /\ getCurrentSong(L_removeSong(playlist, title).pl)
                = playlist.nodes[playlist.nodes[playlist.current].next].song
           /\ L_removeSong(playlist, title).pl.current
                # L_removeSong(playlist, title).pl.head

\* C18 witness: removeSong has just unlinked the cursor's middle node of a
\* three-song list and the cursor stands on the second of the two songs left
C18_Witness ==
    /\ last.op = "playlist.removeSong"
    /\ last.removed = "middle"
    /\ last.atCursor
    /\ getSize(playlist) = 2
    /\ CurrentPos(playlist) = 1

\* C19: removeSong(title) unlinking the cursor's own node leaves the cursor
\* on the new head when the node was the head (on nothing when it was the
\* only node), and on the new tail when the node was the tail of a list of
\* two or more nodes.
C19_EndRemovalMovesCursorToNewEnd ==
    \A title \in Titles :
        (playlist.current # NULL /\ FindFirst(playlist, title) = playlist.current)
        => /\ playlist.current = playlist.head
              => /\ L_removeSong(playlist, title).pl.current
                      = L_removeSong(playlist, title).pl.head
                 /\ getSize(playlist) = 1
                      => L_removeSong(playlist, title).pl.current = NULL
                 /\ getSize(playlist) >= 2
                      => getCurrentSong(L_removeSong(playlist, title).pl)
                           = traverseForward(playlist)[2]
           /\ (playlist.current = playlist.tail /\ getSize(playlist) >= 2)
              => /\ L_removeSong(playlist, title).pl.current
                      = L_removeSong(playlist, title).pl.tail
                 /\ getCurrentSong(L_removeSong(playlist, title).pl)
                      = traverseForward(playlist)[getSize(playlist) - 1]

\* C19 witness: removeSong has just unlinked the cursor's node at the tail of
\* a three-song list and the cursor stands on the last of the two songs left
C19_Witness ==
    /\ last.op = "playlist.removeSong"
    /\ last.removed = "tail"
    /\ last.atCursor
    /\ getSize(playlist) = 2
    /\ playlist.current = playlist.tail
    /\ playlist.current # playlist.head

C22_ControllerMoveClamps ==
    \A index \in -1..MaxSize :
        /\ ~PC_moveCurrentToIndex(Ctl, index).threw
        /\ IF isEmpty(playlist)
           THEN /\ ~PC_moveCurrentToIndex(Ctl, index).ok
                /\ PC_moveCurrentToIndex(Ctl, index).c = Ctl
           ELSE /\ PC_moveCurrentToIndex(Ctl, index).ok
                /\ CurrentPos(PC_moveCurrentToIndex(Ctl, index).c.playlist)
                     = Max(0, Min(index, getSize(playlist) - 1))
                /\ [PC_moveCurrentToIndex(Ctl, index).c
                       EXCEPT !.playlist.current = playlist.current] = Ctl

C25_CopyDiscipline ==
    \A n \in DOMAIN playlist.nodes :
        /\ playlist.nodes[n].song.obj # CallerObject
        /\ \A k \in 1..Stack_size(undoStack) :
             undoStack.items[k].song.obj # playlist.nodes[n].song.obj
        /\ \A k \in 1..Stack_size(redoStack) :
             redoStack.items[k].song.obj # playlist.nodes[n].song.obj

\* C25 witness: undo() has just put back a removed song while the list holds
\* another song whose ADD record is still in the undo log
C25_Witness ==
    /\ last.op = "undo" /\ last.outcome = "done"
    /\ canRedo(Ctl)
    /\ Stack_peek(redoStack)[1].type = "REMOVE"
    /\ canUndo(Ctl)
    /\ Stack_peek(undoStack)[1].type = "ADD"
    /\ \E n \in DOMAIN playlist.nodes :
         SongData(playlist.nodes[n].song) = SongData(Stack_peek(redoStack)[1].song)
    /\ \E n \in DOMAIN playlist.nodes :
         SongData(playlist.nodes[n].song) = SongData(Stack_peek(undoStack)[1].song)

\* C26: the stack is last-in-first-out.  In every state reached by push, pop,
\* peek and clear calls: pushing an item and popping at once returns that
\* item and gives back the stack as it was, so a pop() always takes the most
\* recent item still on the stack; peek() returns the item pop() would
\* return; and size() is the number of pushes minus the number of pops that
\* returned an item since the latest clear().
C26_StackIsLifo ==
    /\ Stack_size(undoStack) = last.pushes - last.pops
    /\ Stack_peek(undoStack) = Stack_pop(undoStack).item
    /\ \A item \in StackItems :
         /\ Stack_pop(Stack_push(undoStack, item)).item = <<item>>
         /\ Stack_pop(Stack_push(undoStack, item)).st = undoStack
         /\ Stack_peek(Stack_push(undoStack, item)) = <<item>>
         /\ Stack_size(Stack_push(undoStack, item)) = Stack_size(undoStack) + 1

\* C26 witness: a second pop() has just returned an item and left two other
\* items on the stack, different from each other
C26_Witness ==
    /\ last.op = "pop" /\ last.ret # <<>>
    /\ last.pops >= 2
    /\ Stack_size(undoStack) = 2
    /\ undoStack.items[1] # undoStack.items[2]

\* C27: on an empty stack pop() and peek() return null and leave the stack
\* empty with size 0; clear() leaves every stack empty.
C27_EmptyStackReturnsNull ==
    /\ Stack_isEmpty(undoStack) =>
         /\ Stack_pop(undoStack).item = <<>>
         /\ Stack_isEmpty(Stack_pop(undoStack).st)
         /\ Stack_size(Stack_pop(undoStack).st) = 0
         /\ Stack_peek(undoStack) = <<>>
    /\ Stack_size(undoStack) >= 0
    /\ Stack_isEmpty(Stack_clear(undoStack))
    /\ Stack_size(Stack_clear(undoStack)) = 0
    /\ last.op = "clear" => Stack_isEmpty(undoStack)

\* C27 witness: pop() has just returned null on a stack emptied by pops
C27_Witness ==
    /\ last.op = "pop" /\ last.ret = <<>>
    /\ last.pushes >= 2
    /\ last.pops = last.pushes
    /\ Stack_size(undoStack) = 0

\* C28: in every state of the list, size is 0 exactly when head, tail and
\* current are all null (and then each of them is null), and when the list is
\* not empty the head node has no prev and the tail node has no next.
C28_EmptyIffNoEnds ==
    /\ (getSize(playlist) = 0)
         <=> (playlist.head = NULL /\ playlist.tail = NULL /\ playlist.current = NULL)
    /\ getSize(playlist) # 0 =>
         /\ playlist.head # NULL /\ playlist.tail # NULL /\ playlist.current # NULL
         /\ playlist.nodes[playlist.head].prev = NULL
         /\ playlist.nodes[playlist.tail].next = NULL

\* C28 witness: removeSong has just unlinked the head of a three-song list
\* and the new head has no prev
C28_Witness ==
    /\ last.op = "playlist.removeSong"
    /\ last.removed = "head"
    /\ getSize(playlist) = 2
    /\ playlist.nodes[playlist.head].prev = NULL
    /\ playlist.nodes[playlist.tail].next = NULL

\* C29: in every state of the list the cursor, when it is not null, is one
\* of the nodes met by walking next from head; it is never a node that a
\* removal has unlinked.
C29_CursorIsInChain ==
    playlist.current # NULL =>
        \E k \in 1..Len(ForwardIds(playlist)) : ForwardIds(playlist)[k] = playlist.current

\* C29 witness: removeSong has just unlinked the cursor's own node, a middle
\* or end node, and the cursor is a node of the chain that is left
C29_Witness ==
    /\ last.op = "playlist.removeSong"
    /\ last.atCursor
    /\ last.removed \in {"head", "tail", "middle"}
    /\ playlist.cls = GuideList
    /\ CurrentPos(playlist) >= 0

\* C30: the action record pushed by a recorded addSong or removeSong holds,
\* as previousCurrentIndex, the 0-based position the cursor node had in the
\* list just before the call and, as currentIndexAfterAdd or
\* currentIndexAfterRemove, the position it has just after (-1 for no
\* cursor), also when the cursor's title occurs earlier in the list.
C30_RecordsHoldCursorPositions ==
    [][ (Recorded' /\ Stack_size(undoStack') = Stack_size(undoStack) + 1) =>
          /\ Stack_peek(undoStack')[1].previousCurrentIndex = CurrentPos(playlist)
          /\ Stack_peek(undoStack')[1].type = "ADD"
               => Stack_peek(undoStack')[1].currentIndexAfterAdd = CurrentPos(playlist')
          /\ Stack_peek(undoStack')[1].type = "REMOVE"
               => Stack_peek(undoStack')[1].currentIndexAfterRemove = CurrentPos(playlist') ]_vars

\* C31: addSong(S) with a valid song appends: it does not raise, the list is
\* the previous list followed by a copy of S, the ADD record on top of the
\* undo log holds the previous size as index, and the cursor stays on the
\* node it was on, or becomes the new node when the list was empty.
C31_ValidAddAppends ==
    \A song \in ValidSongs :
        LET r == PC_addSong(Ctl, song) IN
        /\ ~r.threw
        /\ traverseForward(r.c.playlist)
             = Append(traverseForward(playlist), cloneSong(song, ListCopy))
        /\ getSize(r.c.playlist) = getSize(playlist) + 1
        /\ canUndo(r.c)
        /\ Stack_peek(r.c.undoStack)[1].type = "ADD"
        /\ Stack_peek(r.c.undoStack)[1].index = getSize(playlist)
        /\ SongData(Stack_peek(r.c.undoStack)[1].song) = SongData(song)
        /\ CurrentPos(r.c.playlist) = IF isEmpty(playlist) THEN 0 ELSE CurrentPos(playlist)

\* C32: an undo() that succeeds leaves the cursor at the position recorded in
\* the action as previousCurrentIndex whenever that is 0 or more, and a redo()
\* that succeeds leaves it at the recorded currentIndexAfterAdd or
\* currentIndexAfterRemove whenever that is 0 or more, wherever playNext,
\* playPrevious or moveCurrentToIndex had put the cursor in between.
C32_UndoRedoRestoreRecordedCursor ==
    [][ /\ (last'.op = "undo" /\ last'.outcome = "done"
              /\ Stack_peek(undoStack)[1].previousCurrentIndex >= 0)
           => CurrentPos(playlist') = Stack_peek(undoStack)[1].previousCurrentIndex
        /\ (last'.op = "redo" /\ last'.outcome = "done"
              /\ Stack_peek(redoStack)[1].type = "ADD"
              /\ Stack_peek(redoStack)[1].currentIndexAfterAdd >= 0)
           => CurrentPos(playlist') = Stack_peek(redoStack)[1].currentIndexAfterAdd
        /\ (last'.op = "redo" /\ last'.outcome = "done"
              /\ Stack_peek(redoStack)[1].type = "REMOVE"
              /\ Stack_peek(redoStack)[1].currentIndexAfterRemove >= 0)
           => CurrentPos(playlist') = Stack_peek(redoStack)[1].currentIndexAfterRemove ]_vars

\* C32 witness: undo() has just reversed an ADD recorded with the cursor on
\* the first song, found the cursor elsewhere and put it back on the first
\* song
C32_Witness ==
    /\ last.op = "undo" /\ last.outcome = "done"
    /\ canRedo(Ctl)
    /\ Stack_peek(redoStack)[1].type = "ADD"
    /\ Stack_peek(redoStack)[1].previousCurrentIndex = 0
    /\ last.posBefore >= 1
    /\ CurrentPos(playlist) = 0

\* C33: removeSong(title) unlinks exactly the first song from the head that
\* has the title and returns it: the songs before and after it keep their
\* order and the size drops by one.  When no song has the title, the empty
\* list included, it returns null and leaves the list as it was.
C33_RemoveTakesFirstMatch ==
    \A title \in TitleInputs :
        LET songs == traverseForward(playlist)
            hits == { k \in 1..Len(songs) : songs[k].title = title }
            r == L_removeSong(playlist, title)
        IN IF hits = {}
           THEN r.ret = NoSong /\ r.pl = playlist
           ELSE \E k \in hits :
                  /\ \A j \in hits : k <= j
                  /\ r.ret = songs[k]
                  /\ traverseForward(r.pl)
                       = SubSeq(songs, 1, k - 1) \o SubSeq(songs, k + 1, Len(songs))
                  /\ Len(traverseBackward(r.pl)) = Len(songs) - 1
                  /\ getSize(r.pl) = getSize(playlist) - 1

\* C33 witness: removeSong(title) has just unlinked the head of a three-song
\* list whose last song has the same title, and that last song is still there
C33_Witness ==
    /\ last.op = "playlist.removeSong"
    /\ last.outcome = "done"
    /\ last.removed = "head"
    /\ getSize(playlist) = 2
    /\ traverseForward(playlist)[2].title = last.title
    /\ traverseForward(playlist)[1].title # last.title

\* C34: in every state reached through the controller's methods alone, an
\* undo() with a record on the undo log succeeds: it neither fails nor
\* raises, the undo log loses its top record and the redo log gains it; and
\* a redo() with a record on the redo log succeeds likewise.
C34_UndoRedoNeverFail ==
    /\ canUndo(Ctl) =>
         /\ PC_undo(Ctl).outcome = "done"
         /\ PC_undo(Ctl).c.undoStack = Stack_pop(undoStack).st
         /\ PC_undo(Ctl).c.redoStack = Stack_push(redoStack, Stack_peek(undoStack)[1])
    /\ canRedo(Ctl) =>
         /\ PC_redo(Ctl).outcome = "done"
         /\ PC_redo(Ctl).c.redoStack = Stack_pop(redoStack).st
         /\ PC_redo(Ctl).c.undoStack = Stack_push(undoStack, Stack_peek(redoStack)[1])

\* C34 witness: redo() has just removed a song again; its REMOVE record is on
\* top of the undo log, above another record, and its title is no longer in
\* the list
C34_Witness ==
    /\ last.op = "redo" /\ last.outcome = "done"
    /\ Stack_size(undoStack) = 2
    /\ Stack_peek(undoStack)[1].type = "REMOVE"
    /\ FindFirst(playlist, Stack_peek(undoStack)[1].song.title) = NULL

\* k consecutive undo() calls, and k consecutive redo() calls
RECURSIVE UndoTimes(_, _)
UndoTimes(c, k) == IF k = 0 THEN c ELSE UndoTimes(PC_undo(c).c, k - 1)

RECURSIVE RedoTimes(_, _)
RedoTimes(c, k) == IF k = 0 THEN c ELSE RedoTimes(PC_redo(c).c, k - 1)

\* an addSong or removeSong call of the caller, applied to controller c
ForwardCalls ==
    { [op |-> "addSong", song |-> s, title |-> s.title] : s \in ValidSongs }
      \cup { [op |-> "removeSong", song |-> NoSong, title |-> t] : t \in Titles }

ForwardCall(c, call) ==
    IF call.op = "addSong" THEN PC_addSong(c, call.song) ELSE PC_removeSong(c, call.title)

\* no two songs of the list share a title
DistinctTitles(c) ==
    \A i, j \in 1..Len(traverseForward(c.playlist)) :
        traverseForward(c.playlist)[i].title = traverseForward(c.playlist)[j].title => i = j

\* with k recorded actions made since base, whose undo log was empty: k
\* undo() calls give back the song order of base with the undo log empty, and
\* k redo() calls after them give back the song order of c with the redo log
\* empty
RoundTrip(base, c, k) ==
    /\ ~canUndo(UndoTimes(c, k))
    /\ traverseForward(UndoTimes(c, k).playlist) = traverseForward(base.playlist)
    /\ traverseForward(RedoTimes(UndoTimes(c, k), k).playlist) = traverseForward(c.playlist)
    /\ ~canRedo(RedoTimes(UndoTimes(c, k), k))
    /\ Stack_size(RedoTimes(UndoTimes(c, k), k).undoStack) = k

\* every run of up to MaxLog recorded calls from c that keeps the titles
\* distinct, k of them made so far, round-trips
RECURSIVE AllRunsRoundTrip(_, _, _)
AllRunsRoundTrip(base, c, k) ==
    /\ k > 0 => RoundTrip(base, c, k)
    /\ k < MaxLog =>
         \A call \in ForwardCalls :
             (ForwardCall(c, call).outcome = "done" /\ DistinctTitles(ForwardCall(c, call).c))
             => AllRunsRoundTrip(base, ForwardCall(c, call).c, k + 1)

\* C35: from every state with an empty undo log and distinct titles, after
\* any k recorded addSong/removeSong calls that keep the titles distinct, k
\* undo() calls empty the undo log and give back the song order the list had
\* when the undo log was empty, and k redo() calls after them give back the
\* song order the list had before the first undo, with the redo log empty.
C35_UndoAllRedoAllRoundTrip ==
    (~canUndo(Ctl) /\ DistinctTitles(Ctl)) => AllRunsRoundTrip(Ctl, Ctl, 0)

\* C35 witness: two redo() calls have just followed two undo() calls of two
\* recorded actions: the redo log is empty again, both records are back on
\* the undo log, and the titles are distinct
C35_Witness ==
    /\ last.op = "redo" /\ last.outcome = "done"
    /\ last.redoBefore = 1
    /\ Stack_size(undoStack) = 2
    /\ ~canRedo(Ctl)
    /\ DistinctTitles(Ctl)
    /\ getSize(playlist) >= 2

\* C36: in every state of the list the prev links mirror the next links: for
\* each node of the chain from head that has a next node, that node's prev is
\* the node itself; so the backward traversal from tail hands over the songs
\* of the forward traversal in reverse order, each once.
C36_PrevMirrorsNext ==
    /\ \A k \in 1..Len(ForwardIds(playlist)) :
         playlist.nodes[ForwardIds(playlist)[k]].next # NULL
           => playlist.nodes[playlist.nodes[ForwardIds(playlist)[k]].next].prev
                = ForwardIds(playlist)[k]
    /\ Len(traverseBackward(playlist)) = Len(traverseForward(playlist))
    /\ \A k \in 1..Len(traverseForward(playlist)) :
         traverseBackward(playlist)[k]
           = traverseForward(playlist)[Len(traverseForward(playlist)) + 1 - k]
    /\ BackwardIds(playlist)
         = [k \in 1..Len(ForwardIds(playlist)) |->
               ForwardIds(playlist)[Len(ForwardIds(playlist)) + 1 - k]]

\* C36 witness: addSong(song, 1) has just spliced its song between the two
\* songs of a list, and both traversals meet it second
C36_Witness ==
    /\ last.op = "playlist.addSong"
    /\ playlist.cls = GuideList
    /\ last.index = 1
    /\ getSize(playlist) = 3
    /\ traverseForward(playlist)[2] = last.song
    /\ traverseBackward(playlist)[2] = last.song
    /\ traverseForward(playlist)[1] # traverseForward(playlist)[3]

\* C37: after every call of a controller method the cursor is null only on
\* the empty list: getCurrentSong() returns null only if getSize() is 0.
C37_CursorNullOnlyWhenEmpty ==
    /\ getCurrentSong(playlist) = NoSong => getSize(playlist) = 0
    /\ playlist.current = NULL => isEmpty(playlist)

\* C37 witness: undo() has just put back the only song of a list that a
\* removeSong had emptied, and the cursor is on it
C37_Witness ==
    /\ last.op = "undo" /\ last.outcome = "done"
    /\ last.posBefore = -1
    /\ Stack_peek(redoStack)[1].type = "REMOVE"
    /\ getSize(playlist) = 1
    /\ getCurrentSong(playlist) # NoSong

\* C38: removeSong(title) unlinking a node other than the cursor's, and
\* addSong(song, index) into a non-empty list at any index, leave the cursor
\* on the node it was on: the cursor shows the same song, at its old position
\* or one lower when the unlinked node was in front of it, one higher when
\* the new node is put in front of it or at its place.
C38_CursorKeepsItsNode ==
    playlist.current # NULL =>
      LET p == CurrentPos(playlist) IN
      /\ \A title \in Titles :
           (FindFirst(playlist, title) # NULL /\ FindFirst(playlist, title) # playlist.current)
           => LET k == CHOOSE x \in 1..Len(ForwardIds(playlist)) :
                          ForwardIds(playlist)[x] = FindFirst(playlist, title)
                  after == L_removeSong(playlist, title).pl
              IN /\ CurrentPos(after) = IF k - 1 < p THEN p - 1 ELSE p
                 /\ getCurrentSong(after) = getCurrentSong(playlist)
      /\ \A song \in ValidSongs, index \in -2..(MaxSize + 1) :
           LET at == Max(0, Min(index, getSize(playlist)))
               after == EDLL_addSong(playlist, song, index).pl
           IN /\ CurrentPos(after) = IF at <= p THEN p + 1 ELSE p
              /\ getCurrentSong(after) = getCurrentSong(playlist)

\* C38 witness: removeSong has just unlinked the head of a three-song list
\* while the cursor was on the tail, and the cursor is still on the tail
C38_Witness ==
    /\ last.op = "playlist.removeSong"
    /\ last.removed = "head"
    /\ ~last.atCursor
    /\ getSize(playlist) = 2
    /\ CurrentPos(playlist) = 1
    /\ playlist.current = playlist.tail

\* C39: once initializePlaylist has returned or raised, whatever its
\* argument, isInitializing is false, so an addSong with a valid song made
\* next puts an ADD record on the undo log, a removeSong made next that
\* removes a song puts a REMOVE record on it, and canUndo() is true after
\* either.
C39_SeedingEndsWithInitialize ==
    last.op = "initializePlaylist" =>
        /\ ~isInitializing
        /\ \A song \in ValidSongs :
             /\ canUndo(PC_addSong(Ctl, song).c)
             /\ Stack_peek(PC_addSong(Ctl, song).c.undoStack)[1].type = "ADD"
             /\ Stack_size(PC_addSong(Ctl, song).c.undoStack) = Stack_size(undoStack) + 1
        /\ \A title \in Titles :
             FindFirst(playlist, title) # NULL =>
                 /\ canUndo(PC_removeSong(Ctl, title).c)
                 /\ Stack_peek(PC_removeSong(Ctl, title).c.undoStack)[1].type = "REMOVE"
                 /\ Stack_size(PC_removeSong(Ctl, title).c.undoStack)
                      = Stack_size(undoStack) + 1

====
